---- MODULE Spec2Model ----
(***************************************************************************)
(* A model of skeleton/lib/ext2_access.c: the accessors of a read-only,    *)
(* single-block-group ext2 image, the directory scan get_inode_from_dir    *)
(* and the path resolution get_inode_by_path.                              *)
(*                                                                         *)
(* Strings are sequences of character codes; the terminating NUL of a C    *)
(* string is the position one past the end of the sequence.  Pointers into *)
(* a string are 1-based indices, 0 is NULL.  A directory block is the      *)
(* chain of its records; a pointer into it is the byte offset from the     *)
(* start of the block.                                                     *)
(***************************************************************************)
EXTENDS Integers, Sequences, FiniteSets, TLC

\* ------------------------------------------------------------- bounds
MaxPathLen == 4
MaxEntries == 2
MaxLogBlockSize == 6
MaxBeyond == 2

\* ---------------------------------------------------------- constants
Slash == 47
EXT2_ROOT_INO == 2
EXT2_MIN_BLOCK_SIZE == 1024
NOT_FOUND == 0

\* The characters paths are drawn from: '/', 'a', 'b'.
PathChars == {Slash, 97, 98}
\* The names directory entries are drawn from: "a" and "ab".
EntryNames == {<<97>>, <<97, 98>>}
\* The inode numbers in use: the root directory and the first ordinary inode.
Inodes == {EXT2_ROOT_INO, 11}

\* ------------------------------------------------------------ strings
SeqsUpTo(S, n) == UNION {[1..k -> S] : k \in 0..n}

\* The character at index k; the terminating NUL (0) past the end.
CharAt(s, k) == IF k \in 1..Len(s) THEN s[k] ELSE 0

strlen(s) == Len(s)

\* strchr(s + (from-1), '/'): the first '/' at or after index from, else NULL.
strchr(s, from) ==
    IF \E k \in from..Len(s) : s[k] = Slash
    THEN CHOOSE k \in from..Len(s) :
            s[k] = Slash /\ \A j \in from..(k - 1) : s[j] # Slash
    ELSE 0

RECURSIVE StrncmpFrom(_, _, _, _)
StrncmpFrom(s1, s2, n, k) ==
    IF k > n THEN 0
    ELSE IF CharAt(s1, k) # CharAt(s2, k) THEN CharAt(s1, k) - CharAt(s2, k)
    ELSE IF CharAt(s1, k) = 0 THEN 0
    ELSE StrncmpFrom(s1, s2, n, k + 1)

\* Mutant: the comparison is cut at the end of s1 as well.
strncmp_cut_at_s1(s1, s2, n) ==
    StrncmpFrom(s1, s2, IF strlen(s1) < n THEN strlen(s1) ELSE n, 1)

\* strncmp(s1, s2, n): compares at most n characters, stopping at a NUL.
strncmp(s1, s2, n) == StrncmpFrom(s1, s2, n, 1)

\* --------------------------------------------------------- split_path
RECURSIVE CountSlashes(_, _)
\* The first loop of split_path: one count for the start of the path and one
\* for every '/' found after its first character.
CountSlashes(path, slash) ==
    IF slash = 0 THEN 0
    ELSE 1 + CountSlashes(path, strchr(path, slash + 1))

num_slashes(path) == CountSlashes(path, 1)

RECURSIVE Pieces(_, _, _)
\* The second loop of split_path and its last piece.
Pieces(path, piece_start, slash) ==
    IF slash = 0
    THEN <<SubSeq(path, piece_start, Len(path))>>
    ELSE <<SubSeq(path, piece_start, slash - 1)>>
         \o Pieces(path, slash + 1, strchr(path, slash + 1))

\* Mutant: piece_start starts at path instead of path + 1.
split_path_from_start(path) == Pieces(path, 1, strchr(path, 2))

split_path(path) == Pieces(path, 2, strchr(path, 2))

RECURSIVE CountLevels(_, _)
\* The counting loop of get_inode_by_path: every '/' of the path.
CountLevels(path, k) ==
    IF k > strlen(path) THEN 0
    ELSE (IF path[k] = Slash THEN 1 ELSE 0) + CountLevels(path, k + 1)

Levels(path) == CountLevels(path, 1)

\* ---------------------------------------------------- directory blocks
\* The block size of the image: EXT2_MIN_BLOCK_SIZE << s_log_block_size.
EXT2_BLOCK_SIZE(log) == EXT2_MIN_BLOCK_SIZE * (2 ^ log)

\* The images of the directory model have s_log_block_size = 0.
BlockSize == EXT2_BLOCK_SIZE(0)

\* The on-disk size of an entry: 8 bytes of header, the name, padded to 4.
DirRecLen(name_len) == ((name_len + 8 + 3) \div 4) * 4

FileTypeOf(ino) == IF ino = EXT2_ROOT_INO THEN 2 ELSE 1

DirEntry(nm, ino, rl) ==
    [inode |-> ino, rec_len |-> rl, name_len |-> Len(nm),
     file_type |-> FileTypeOf(ino), name |-> nm]

\* The record whose file_type is 0: the end of the list.
Sentinel ==
    [inode |-> 0, rec_len |-> 0, name_len |-> 0, file_type |-> 0, name |-> <<>>]

RECURSIVE OffsetOf(_, _)
\* The byte offset of entry j of a chain (and, for j = Len + 1, its end).
OffsetOf(entries, j) ==
    IF j <= 1 THEN 0
    ELSE OffsetOf(entries, j - 1) + entries[j - 1].rec_len

EndOf(entries) == OffsetOf(entries, Len(entries) + 1)

\* A block laid out from (name, inode) pairs.  With a sentinel every entry has
\* its minimal rec_len and the file_type 0 record follows the last entry;
\* fully packed, the last entry's rec_len runs to the end of the block.
LayOut(pairs, sentinel) ==
    LET min == [j \in 1..Len(pairs) |->
                  DirEntry(pairs[j][1], pairs[j][2], DirRecLen(Len(pairs[j][1])))]
    IN [entries |->
          [j \in 1..Len(pairs) |->
              IF ~sentinel /\ j = Len(pairs)
              THEN DirEntry(pairs[j][1], pairs[j][2], BlockSize - OffsetOf(min, j))
              ELSE min[j]],
        sentinel |-> sentinel]

Pairs == EntryNames \X Inodes

\* The first blocks of the root directory ...
RootBlocks(sentinels) ==
    {LayOut(p, s) : p \in SeqsUpTo(Pairs, MaxEntries), s \in sentinels}
       \ {LayOut(<<>>, FALSE)}

\* ... and of the other inode, of at most one entry.
SubBlocks(sentinels) ==
    {LayOut(p, s) : p \in SeqsUpTo(Pairs, 1), s \in sentinels}
       \ {LayOut(<<>>, FALSE)}

Images(sentinels) ==
    {[ino \in Inodes |-> IF ino = EXT2_ROOT_INO THEN r ELSE s] :
        r \in RootBlocks(sentinels), s \in SubBlocks(sentinels)}

Paths == SeqsUpTo(PathChars, MaxPathLen)

\* Whether offset off of the block holds a record of the chain.
IsRecord(blk, off) ==
    \/ \E j \in 1..Len(blk.entries) : OffsetOf(blk.entries, j) = off
    \/ blk.sentinel /\ off = EndOf(blk.entries)

\* The struct ext2_dir_entry_2 at directoryBlock + off.
ReadRecord(blk, off) ==
    IF \E j \in 1..Len(blk.entries) : OffsetOf(blk.entries, j) = off
    THEN blk.entries[CHOOSE j \in 1..Len(blk.entries) :
                        OffsetOf(blk.entries, j) = off]
    ELSE Sentinel

\* get_block(fs, get_inode(fs, ino)->i_block[0]): the directory's first block.
FirstBlock(img, ino) == img[ino]

\* The index of the entry at offset off (0: none).
EntryIndex(blk, off) ==
    IF \E j \in 1..Len(blk.entries) : OffsetOf(blk.entries, j) = off
    THEN CHOOSE j \in 1..Len(blk.entries) : OffsetOf(blk.entries, j) = off
    ELSE 0

\* ------------------------------------- the two functions, as functions
RECURSIVE ScanFrom(_, _, _)
\* The while loop of get_inode_from_dir from offset off of a chain that ends
\* in the file_type 0 record.
ScanFrom(blk, nm, off) ==
    LET entry == ReadRecord(blk, off)
    IN IF ~IsRecord(blk, off) \/ entry.file_type = 0 THEN 0
       ELSE IF strncmp(nm, entry.name, entry.name_len) = 0 THEN entry.inode
       ELSE ScanFrom(blk, nm, off + entry.rec_len)

get_inode_from_dir(img, dir, nm) == ScanFrom(FirstBlock(img, dir), nm, 0)

RECURSIVE WalkFrom(_, _, _, _, _)
\* The for loop of get_inode_by_path from index k (0-based) in directory dir.
WalkFrom(img, comps, lv, k, dir) ==
    LET ino == get_inode_from_dir(img, dir, comps[k + 1])
    IN IF ino = 0 THEN 0
       ELSE IF k + 1 < lv THEN WalkFrom(img, comps, lv, k + 1, ino)
       ELSE ino

get_inode_by_path(img, p) ==
    IF Levels(p) = 0 THEN 0
    ELSE WalkFrom(img, split_path(p), Levels(p), 0, EXT2_ROOT_INO)

\* ------------------------------------------------- 32-bit arithmetic
\* A __u32 is its four bytes, least significant first; a 64-bit value eight.
RECURSIVE ByteOf(_, _)
ByteOf(x, b) == IF b = 0 THEN x % 256 ELSE ByteOf(x \div 256, b - 1)

Bytes(x, n) == [b \in 0..(n - 1) |-> ByteOf(x, b)]

ByteAt(a, b) == IF b \in DOMAIN a THEN a[b] ELSE 0

RECURSIVE ColumnSum(_, _, _, _)
\* The sum of the byte products a[j] * b[c - j] for j = 0..upto.
ColumnSum(a, b, c, upto) ==
    IF upto < 0 THEN 0
    ELSE ByteAt(a, upto) * ByteAt(b, c - upto) + ColumnSum(a, b, c, upto - 1)

RECURSIVE CarryInto(_, _, _)
CarryInto(a, b, c) ==
    IF c = 0 THEN 0
    ELSE (ColumnSum(a, b, c - 1, c - 1) + CarryInto(a, b, c - 1)) \div 256

\* The mathematical product of two __u32 values, eight bytes wide.
Product(a, b) ==
    [c \in 0..7 |-> (ColumnSum(a, b, c, c) + CarryInto(a, b, c)) % 256]

\* The product as C computes it for two __u32 operands: modulo 2^32.
MulU32(a, b) == [c \in 0..3 |-> Product(a, b)[c]]

\* A __u32 added to a 64-bit pointer (as an offset from fs) is zero-extended.
ZeroExtend(u) == [c \in 0..7 |-> ByteAt(u, c)]

\* get_block_size(fs): EXT2_BLOCK_SIZE of the superblock, a __u32.
get_block_size(log) == Bytes(EXT2_BLOCK_SIZE(log), 4)

\* get_block(fs, block_num) - fs.
get_block(log, block_num) == ZeroExtend(MulU32(block_num, get_block_size(log)))

\* The block numbers get_block is called with.
SampleBytes == {0, 1, 64, 255}
BlockNums == [0..3 -> SampleBytes]

\* -------------------------------------------------------------- state
VARIABLES
    image,           \* the mapped image: inode number -> first data block
    image0,          \* the image as the caller mapped it (never assigned)
    path,            \* the path argument of get_inode_by_path
    pc,              \* "call", "scan", "done", "idle"; "get_block", "got_block"
    levels,          \* get_inode_by_path: levels
    pathComponents,  \* get_inode_by_path: pathComponents
    i,               \* get_inode_by_path: i
    folders,         \* get_inode_by_path: folders, as the inode's number
    inodeNo,         \* get_inode_by_path: inodeNo
    name,            \* get_inode_from_dir: name
    cur,             \* get_inode_from_dir: currentBlock - directoryBlock
    result,          \* the value get_inode_by_path returned
    lookups,         \* history: the calls of get_inode_from_dir that returned
    advances,        \* history: rec_len advances of the current scan
    recalled,        \* history: get_inode_by_path was called before this call
    s_log_block_size,\* the superblock's s_log_block_size
    block_num,       \* the argument of get_block
    block_addr       \* the value get_block returned, as an offset from fs

vars == <<image, image0, path, pc, levels, pathComponents, i, folders, inodeNo,
          name, cur, result, lookups, advances, recalled,
          s_log_block_size, block_num, block_addr>>

blockVars == <<s_log_block_size, block_num, block_addr>>

\* The locals of a call of get_inode_by_path before it runs.
Fresh ==
    /\ levels = 0
    /\ pathComponents = <<>>
    /\ i = 0
    /\ folders = EXT2_ROOT_INO
    /\ inodeNo = 0
    /\ name = <<>>
    /\ cur = 0
    /\ result = 0
    /\ lookups = <<>>
    /\ advances = 0

InitWith(sentinels) ==
    /\ image \in Images(sentinels)
    /\ image0 = image
    /\ path \in Paths
    /\ pc = "call"
    /\ Fresh
    /\ recalled = FALSE
    /\ s_log_block_size = 0
    /\ block_num = Bytes(0, 4)
    /\ block_addr = Bytes(0, 8)

\* Every directory block holds the file_type 0 record after its entries.
Init == InitWith({TRUE})

\* ------------------------------------------------- get_inode_by_path
\* get_inode_by_path up to its first call of get_inode_from_dir.
Enter ==
    /\ pc = "call"
    /\ levels' = Levels(path)
    /\ IF levels' = 0
       THEN /\ pc' = "done"
            /\ result' = NOT_FOUND
            /\ UNCHANGED <<pathComponents, i, folders, name, cur>>
       ELSE /\ pathComponents' = split_path(path)
            /\ folders' = EXT2_ROOT_INO
            /\ i' = 0
            /\ name' = pathComponents'[1]
            /\ cur' = 0
            /\ pc' = "scan"
            /\ UNCHANGED result
    /\ UNCHANGED <<image, image0, path, inodeNo, lookups, advances, recalled>>
    /\ UNCHANGED blockVars

\* get_inode_from_dir returned ret: the rest of the loop body, the loop test
\* and, when it holds, the next call of get_inode_from_dir.
Returned(ret) ==
    /\ inodeNo' = ret
    /\ lookups' = Append(lookups, [dir |-> folders, name |-> name, ret |-> ret])
    /\ IF ret # 0
       THEN /\ folders' = ret
            /\ i' = i + 1
            /\ IF i + 1 < levels
               THEN /\ name' = pathComponents[i + 2]
                    /\ cur' = 0
                    /\ advances' = 0
                    /\ UNCHANGED <<pc, result>>
               ELSE /\ pc' = "done"
                    /\ result' = ret
                    /\ UNCHANGED <<name, cur, advances>>
       ELSE /\ pc' = "done"
            /\ result' = 0
            /\ UNCHANGED <<folders, i, name, cur, advances>>
    /\ UNCHANGED <<image0, path, levels, pathComponents, recalled>>
    /\ UNCHANGED blockVars

Scanning == pc = "scan" /\ IsRecord(FirstBlock(image, folders), cur)

Entry == ReadRecord(FirstBlock(image, folders), cur)

\* Mutant: after a failed lookup the loop goes on with the next component.
ScanSentinelGoesOn ==
    /\ Scanning
    /\ Entry.file_type = 0
    /\ inodeNo' = 0
    /\ lookups' = Append(lookups, [dir |-> folders, name |-> name, ret |-> 0])
    /\ i' = i + 1
    /\ IF i + 1 < levels
       THEN /\ name' = pathComponents[i + 2]
            /\ cur' = 0
            /\ advances' = 0
            /\ UNCHANGED <<pc, result>>
       ELSE /\ pc' = "done"
            /\ result' = 0
            /\ UNCHANGED <<name, cur, advances>>
    /\ UNCHANGED <<image, image0, path, levels, pathComponents, folders, recalled>>
    /\ UNCHANGED blockVars

\* The while test fails: the record's file_type is 0.
ScanSentinel ==
    /\ Scanning
    /\ Entry.file_type = 0
    /\ Returned(NOT_FOUND)
    /\ UNCHANGED image

\* Mutant: the matched entry is overwritten with the end-of-list record.
ScanMatchClears ==
    /\ Scanning
    /\ Entry.file_type # 0
    /\ strncmp(name, Entry.name, Entry.name_len) = 0
    /\ Returned(Entry.inode)
    /\ image' = [image EXCEPT ![folders].entries[EntryIndex(image[folders], cur)] =
                    [@ EXCEPT !.file_type = 0]]

\* strncmp(name, entry->name, entry->name_len) == 0: return entry->inode.
ScanMatch ==
    /\ Scanning
    /\ Entry.file_type # 0
    /\ strncmp(name, Entry.name, Entry.name_len) = 0
    /\ Returned(Entry.inode)
    /\ UNCHANGED image

\* Mutant: currentBlock is not advanced.
ScanAdvanceStays ==
    /\ Scanning
    /\ Entry.file_type # 0
    /\ strncmp(name, Entry.name, Entry.name_len) # 0
    /\ cur' = cur
    /\ advances' = advances + 1
    /\ UNCHANGED <<image, image0, path, pc, levels, pathComponents, i, folders,
                   inodeNo, name, result, lookups, recalled>>
    /\ UNCHANGED blockVars

\* Otherwise currentBlock += entry->rec_len.
ScanAdvance ==
    /\ Scanning
    /\ Entry.file_type # 0
    /\ strncmp(name, Entry.name, Entry.name_len) # 0
    /\ cur' = cur + Entry.rec_len
    /\ advances' = advances + 1
    /\ UNCHANGED <<image, image0, path, pc, levels, pathComponents, i, folders,
                   inodeNo, name, result, lookups, recalled>>
    /\ UNCHANGED blockVars

Next == Enter \/ ScanSentinel \/ ScanMatch \/ ScanAdvance

Spec == Init /\ [][Next]_vars

\* ------------------------------------------------------ repeated calls
\* The caller takes the result: the locals of the call are gone.
Return ==
    /\ pc = "done"
    /\ pc' = "idle"
    /\ path' = <<>>
    /\ levels' = 0
    /\ pathComponents' = <<>>
    /\ i' = 0
    /\ folders' = EXT2_ROOT_INO
    /\ inodeNo' = 0
    /\ name' = <<>>
    /\ cur' = 0
    /\ result' = 0
    /\ lookups' = <<>>
    /\ advances' = 0
    /\ UNCHANGED <<image, image0, recalled>>
    /\ UNCHANGED blockVars

\* The caller calls get_inode_by_path again, with any path, on the same image.
Recall ==
    /\ pc = "idle"
    /\ path' \in Paths
    /\ pc' = "call"
    /\ recalled' = TRUE
    /\ UNCHANGED <<image, image0, levels, pathComponents, i, folders, inodeNo,
                   name, cur, result, lookups, advances>>
    /\ UNCHANGED blockVars

NextRepeat == Next \/ Return \/ Recall

SpecRepeat == Init /\ [][NextRepeat]_vars

\* ------------------------------------------------ fully packed blocks
\* A directory block either holds the file_type 0 record after its entries or
\* is fully packed: its last entry's rec_len ends at the end of the block.
InitPacked == InitWith({TRUE, FALSE})

\* What the bytes after the block may hold, read as a directory record.
RecordsBeyond ==
    {Sentinel} \cup
    {DirEntry(nm, ino, DirRecLen(Len(nm))) : nm \in EntryNames, ino \in Inodes}

\* The scan left the chain: currentBlock is at or past the end of the
\* directory's block, and the loop goes on with whatever is stored there.
\* The model follows it for MaxBeyond records past the block.
ScanBeyond ==
    /\ pc = "scan"
    /\ ~IsRecord(FirstBlock(image, folders), cur)
    /\ \E rec \in RecordsBeyond :
          IF rec.file_type = 0
          THEN Returned(NOT_FOUND)
          ELSE IF strncmp(name, rec.name, rec.name_len) = 0
          THEN Returned(rec.inode)
          ELSE /\ cur + rec.rec_len <= BlockSize + MaxBeyond * DirRecLen(1)
               /\ cur' = cur + rec.rec_len
               /\ advances' = advances + 1
               /\ UNCHANGED <<image0, path, pc, levels, pathComponents, i,
                              folders, inodeNo, name, result, lookups, recalled>>
               /\ UNCHANGED blockVars
    /\ UNCHANGED image

NextPacked == Next \/ ScanBeyond

SpecPacked == InitPacked /\ [][NextPacked]_vars

\* ---------------------------------------------------------- get_block
InitBlock ==
    /\ image = [ino \in Inodes |-> LayOut(<<>>, TRUE)]
    /\ image0 = image
    /\ path = <<>>
    /\ pc = "get_block"
    /\ Fresh
    /\ recalled = FALSE
    /\ s_log_block_size \in 0..MaxLogBlockSize
    /\ block_num \in BlockNums
    /\ block_addr = Bytes(0, 8)

GetBlock ==
    /\ pc = "get_block"
    /\ block_addr' = get_block(s_log_block_size, block_num)
    /\ pc' = "got_block"
    /\ UNCHANGED <<image, image0, path, levels, pathComponents, i, folders,
                   inodeNo, name, cur, result, lookups, advances, recalled,
                   s_log_block_size, block_num>>

SpecBlock == InitBlock /\ [][GetBlock]_vars

\* ===================================================================
\* The claims.
\* ===================================================================

\* ------------------------------------------- the reference traversal
\* Byte-for-byte equality of a name and an entry's name.
SameName(nm, entry) ==
    /\ entry.name_len = Len(nm)
    /\ \A k \in 1..entry.name_len : entry.name[k] = nm[k]

RECURSIVE FirstExact(_, _, _)
\* The inode of the first entry from index j on whose name equals nm, else 0.
FirstExact(entries, nm, j) ==
    IF j > Len(entries) THEN 0
    ELSE IF SameName(nm, entries[j]) THEN entries[j].inode
    ELSE FirstExact(entries, nm, j + 1)

RefLookup(blk, nm) == FirstExact(blk.entries, nm, 1)

RECURSIVE SplitOnSlash(_)
SplitOnSlash(s) ==
    IF \E k \in 1..Len(s) : s[k] = Slash
    THEN LET k == CHOOSE k \in 1..Len(s) :
                     s[k] = Slash /\ \A j \in 1..(k - 1) : s[j] # Slash
         IN <<SubSeq(s, 1, k - 1)>> \o SplitOnSlash(SubSeq(s, k + 1, Len(s)))
    ELSE <<s>>

\* The components c1..cN of a path "/c1/.../cN".
RefComponents(p) == SplitOnSlash(Tail(p))

RECURSIVE RefWalk(_, _, _)
RefWalk(img, dir, comps) ==
    IF comps = <<>> THEN dir
    ELSE LET ino == RefLookup(img[dir], Head(comps))
         IN IF ino = 0 THEN 0 ELSE RefWalk(img, ino, Tail(comps))

RefResolve(img, p) == RefWalk(img, EXT2_ROOT_INO, RefComponents(p))

Absolute(p) == p # <<>> /\ p[1] = Slash

SlashCount(p) == Cardinality({k \in 1..Len(p) : p[k] = Slash})

RECURSIVE JoinWithSlash(_)
JoinWithSlash(comps) ==
    IF comps = <<>> THEN <<>>
    ELSE <<Slash>> \o Head(comps) \o JoinWithSlash(Tail(comps))

Last(q) == q[Len(q)]

\* C1: on an image whose directory blocks end in the file_type 0 record, for
\* every path "/c1/.../cN" whose components all exist along the chain from the
\* root, get_inode_by_path returns the inode number the reference traversal
\* (exact name equality at every level, starting at inode 2) produces.
C1_ResolveMatchesReference ==
    (pc = "done" /\ Absolute(path) /\ RefResolve(image, path) # 0)
        => result = RefResolve(image, path)

\* C2: every call of get_inode_from_dir returns the inode of the first entry
\* before the sentinel whose name equals the name exactly, and 0 when there is
\* none; an entry whose name is a proper prefix of the name is no match.
C2_LookupIsExact ==
    \A j \in 1..Len(lookups) :
        lookups[j].ret = RefLookup(image[lookups[j].dir], lookups[j].name)

\* C3: for every non-empty path whose first character is not '/',
\* get_inode_by_path returns 0, with or without a '/' further on.
C3_RelativePathNotFound ==
    (pc = "done" /\ path # <<>> /\ path[1] # Slash) => result = NOT_FOUND

C5_InOrderShortCircuit ==
    /\ \A j \in 1..Len(lookups) :
          /\ j <= Len(pathComponents)
          /\ lookups[j].name = pathComponents[j]
          /\ lookups[j].dir = IF j = 1 THEN EXT2_ROOT_INO ELSE lookups[j - 1].ret
          /\ j < Len(lookups) => lookups[j].ret # 0
    /\ Len(lookups) <= levels
    /\ (lookups # <<>> /\ Last(lookups).ret = 0) =>
          /\ pc = "done"
          /\ result = 0
          /\ folders = Last(lookups).dir
    /\ pc = "scan" =>
          /\ folders = IF lookups = <<>> THEN EXT2_ROOT_INO ELSE Last(lookups).ret
          /\ name = pathComponents[Len(lookups) + 1]
    /\ (pc = "done" /\ result # 0) =>
          /\ Len(lookups) = levels
          /\ \A j \in 1..Len(lookups) : lookups[j].ret # 0
          /\ result = Last(lookups).ret

C5_Witness ==
    /\ pc = "done"
    /\ result = 0
    /\ levels = 3
    /\ Len(lookups) = 2
    /\ lookups[1].ret # 0

\* C6: for every block number and every s_log_block_size, get_block returns
\* fs + block_num * (1024 << s_log_block_size), the product being the
\* mathematical one (no wrap-around), and get_block(fs, 0) = fs.
C6_BlockAddressExact ==
    pc = "got_block" =>
        /\ block_addr = Product(block_num, Bytes(EXT2_BLOCK_SIZE(s_log_block_size), 4))
        /\ block_num = Bytes(0, 4) => block_addr = Bytes(0, 8)

\* C7: for a path that begins with '/' and holds k >= 1 '/' characters,
\* split_path returns exactly k components, in order, none holding a '/',
\* and '/' + component, concatenated over the components, is the path; k is
\* the number of components get_inode_by_path iterates over.
C7_SplitPath ==
    (Absolute(path) /\ pc \in {"scan", "done"}) =>
        /\ Len(pathComponents) = SlashCount(path)
        /\ num_slashes(path) = SlashCount(path)
        /\ levels = SlashCount(path)
        /\ \A j \in 1..Len(pathComponents) :
              \A k \in 1..Len(pathComponents[j]) : pathComponents[j][k] # Slash
        /\ JoinWithSlash(pathComponents) = path
        /\ i <= levels

C7_Witness ==
    /\ pc = "done"
    /\ path = <<Slash, 97, Slash, Slash>>
    /\ pathComponents = <<(<<97>>), <<>>, <<>>>>

\* C8: no step changes the image, and every completed call of
\* get_inode_by_path, whatever calls came before it, returns the one value
\* that the image as mapped and the path determine.
C8_ImageUnchangedSameResult ==
    /\ image = image0
    /\ pc = "done" => result = get_inode_by_path(image0, path)

C8_Witness ==
    /\ recalled
    /\ pc = "done"
    /\ result # 0
    /\ Len(lookups) = 2

\* C9: in a directory block that ends in the file_type 0 record or is fully
\* packed, get_inode_from_dir reads records only at offsets inside the block.
C9_ScanInsideBlock ==
    pc = "scan" => cur + 8 <= BlockSize

\* The bounds of a call: at most one scan per path component, at most as many
\* rec_len advances in a scan as the directory has entries, the scan at a
\* record of the chain inside the block, and a step to take before the return.
C10_Bounded ==
    /\ Len(lookups) + (IF pc = "scan" THEN 1 ELSE 0) <= levels
    /\ levels <= Len(path)
    /\ pc = "scan" =>
          /\ IsRecord(FirstBlock(image, folders), cur)
          /\ advances <= Len(FirstBlock(image, folders).entries)
          /\ cur + 8 <= BlockSize
    /\ pc = "done" \/ ENABLED Next

\* Every step moves on: the call returns, a lookup returns, or the scan advances.
C10_Progress ==
    \/ pc' = "done"
    \/ Len(lookups') > Len(lookups)
    \/ Len(lookups') = Len(lookups) /\ advances' > advances
    \/ pc = "call" /\ pc' = "scan"

====
